---- MODULE Spec2Model ----
(***************************************************************************)
(* One WebhookBin Durable Object (src/src/index.ts): its durable storage   *)
(* (the SQLite table `requests`, the key createdAt, the alarm), its        *)
(* in-memory Set of WebSocket sessions, and the handlers that act on them. *)
(*                                                                         *)
(* Every handler is one action.  All awaits of the class are awaits of     *)
(* ctx.storage operations (get, put, setAlarm, getAlarm, deleteAll) or of  *)
(* the synchronous-bodied getRequests, so no other event of the same       *)
(* object is delivered while a handler is suspended; the only way a        *)
(* handler stops partway is by throwing.                                    *)
(***************************************************************************)
EXTENDS Integers, Sequences, FiniteSets, TLC

\* ------------------------------------------------------------------ bounds
MaxCaptures == 2        \* rows per lifecycle in Spec
MaxChannels == 2        \* WebSocketPairs ever created
MaxTicks == 1           \* clock advances
MaxAttempts == 2        \* consecutive deliveries of one alarm
MaxCapCaptures == 101   \* rows in SpecCap (one lifecycle, no viewers)

\* --------------------------------------------------------------- constants
TTL_MS == 6 * 60 * 60 * 1000
REQUEST_LIMIT == 100

None == 0                            \* undefined / null (falsy, never a time)
TickMs == TTL_MS                     \* one clock advance
StartMs == TickMs                    \* Date.now() at construction (> 0)
MaxNow == StartMs + MaxTicks * TickMs
Channels == 1 .. MaxChannels

\* the capture call of the spec's scenario that fills every field
CaptureInputs ==
  { [method |-> "POST",
     headers |-> << <<"content-type", "application/json">> >>,
     body |-> "{\"a\":1}", query |-> "?x=1", metadata |-> "{}"] }

VARIABLES
  now,             \* Date.now()
  createdAt,       \* ctx.storage key 'createdAt' (None when absent)
  scheduledAlarm,  \* ctx.storage alarm time (None when none is pending)
  tableExists,     \* the SQLite table `requests` exists
  requests,        \* rows of the table `requests`
  seq,             \* sqlite_sequence of `requests` (AUTOINCREMENT)
  sessions,        \* this.sessions
  listeners,       \* server sockets with close/error listeners attached
  events,          \* close/error events not yet delivered to a listener
  chan,            \* per WebSocketPair: "unused", "open", "closed"
  inbox,           \* per WebSocketPair: messages server.send delivered
  last,            \* outcome of the last handler that ran
  cur,             \* the Durable Object the variables above are the state of
  parked,          \* the state of the other Durable Object
  req              \* the identifier the last request named

vars == << now, createdAt, scheduledAlarm, tableExists, requests, seq,
           sessions, listeners, events, chan, inbox, last, cur, parked, req >>

storage == << createdAt, scheduledAlarm, tableExists, requests, seq >>
sockets == << sessions, listeners, events, chan, inbox >>
\* what one Durable Object owns, and what tells the objects apart
unit == << createdAt, scheduledAlarm, tableExists, requests, seq,
           sessions, listeners, events, chan, inbox >>
iso == << cur, parked, req >>

\* the identifiers requests name, as their characters
Identifiers == { << "a" >>, << "b" >> }

Min(a, b) == IF a <= b THEN a ELSE b

\* ------------------------------------------------------------ pure helpers

\* JSON.stringify(headers) for the header maps of CaptureInputs
JSONStringify(h) ==
  IF h = <<>> THEN "{}" ELSE "{\"content-type\":\"application/json\"}"

\* ORDER BY id DESC
RECURSIVE OrderByIdDesc(_)
OrderByIdDesc(rows) ==
  IF rows = {} THEN <<>>
  ELSE LET top == CHOOSE r \in rows : \A q \in rows : q.id <= r.id
       IN  <<top>> \o OrderByIdDesc(rows \ {top})

\* LIMIT n
LimitOffByOne(s, n) == SubSeq(s, 1, Min(Len(s), n + 1))
Limit(s, n) == SubSeq(s, 1, Min(Len(s), n))

\* SELECT ... FROM requests ORDER BY id DESC LIMIT REQUEST_LIMIT
SelectRequests(rows) == Limit(OrderByIdDesc(rows), REQUEST_LIMIT)

\* INTEGER PRIMARY KEY AUTOINCREMENT: one more than the largest id ever used
MaxId(rows) == IF rows = {} THEN 0
               ELSE (CHOOSE r \in rows : \A q \in rows : q.id <= r.id).id
NextIdFromZero(rows, s) == IF MaxId(rows) > s THEN MaxId(rows) ELSE s
NextId(rows, s) == (IF MaxId(rows) > s THEN MaxId(rows) ELSE s) + 1

\* the row INSERT stores and RETURNING id reports, and the broadcast payload
WebhookRequestSwapsFields(id, in) ==
  [id |-> id, timestamp |-> now, method |-> in.method,
   headers |-> JSONStringify(in.headers), body |-> in.query,
   query |-> in.body, metadata |-> in.metadata]
WebhookRequest(id, in) ==
  [id |-> id, timestamp |-> now, method |-> in.method,
   headers |-> JSONStringify(in.headers), body |-> in.body,
   query |-> in.query, metadata |-> in.metadata]

\* session.send succeeds on an open socket and throws on any other
SendOk(c) == chan[c] = "open"

\* broadcast: send to every session, drop the sessions whose send throws
BroadcastInboxFirstOnly(inb, sess, msg) ==
  [c \in Channels |->
     IF c \in sess /\ SendOk(c) /\ (\A d \in sess : c <= d)
     THEN Append(inb[c], msg) ELSE inb[c]]
BroadcastInbox(inb, sess, msg) ==
  [c \in Channels |->
     IF c \in sess /\ SendOk(c) THEN Append(inb[c], msg) ELSE inb[c]]
BroadcastSessionsKeepsFailed(sess) == sess
BroadcastSessions(sess) == {c \in sess : SendOk(c)}

DeletedMsg == [type |-> "deleted", reason |-> "expired"]
NewRequestMsg(r) == [type |-> "new_request", data |-> r]
InitialDataMsgFallback(data, exp) ==
  [type |-> "initial_data", data |-> data, expiresAt |-> now + TTL_MS]
InitialDataMsg(data, exp) ==
  [type |-> "initial_data", data |-> data, expiresAt |-> exp]

\* ------------------------------------------------------------------- Init
\* the state after the constructor ran on an identifier with no storage
Init ==
  /\ now = StartMs
  /\ createdAt = None
  /\ scheduledAlarm = None
  /\ tableExists = TRUE
  /\ requests = {}
  /\ seq = 0
  /\ sessions = {}
  /\ listeners = {}
  /\ events = {}
  /\ chan = [c \in Channels |-> "unused"]
  /\ inbox = [c \in Channels |-> <<>>]
  /\ last = [op |-> "constructor", ok |-> TRUE]
  /\ cur = << "a" >>
  /\ parked = << None, None, TRUE, {}, 0, {}, {}, {}, chan, inbox >>
  /\ req = << >>

\* ---------------------------------------------------------------- actions

\* ensureScheduled: record createdAt and arm the alarm if createdAt is
\* absent; otherwise re-create a missing alarm from the stored createdAt
ensureScheduledSkips ==
  UNCHANGED << createdAt, scheduledAlarm >>
ensureScheduledRearmsFromNow ==
  IF createdAt = None
  THEN /\ createdAt' = now
       /\ scheduledAlarm' = now + TTL_MS
  ELSE /\ createdAt' = createdAt
       /\ scheduledAlarm' = IF scheduledAlarm = None
                            THEN now + TTL_MS
                            ELSE scheduledAlarm
ensureScheduledResets ==
  /\ createdAt' = now
  /\ scheduledAlarm' = now + TTL_MS
ensureScheduled ==
  IF createdAt = None
  THEN /\ createdAt' = now
       /\ scheduledAlarm' = now + TTL_MS
  ELSE /\ createdAt' = createdAt
       /\ scheduledAlarm' = IF scheduledAlarm = None
                            THEN createdAt + TTL_MS
                            ELSE scheduledAlarm

\* constructor: the instance is (re)created: evicted, restarted, redeployed;
\* the sockets of the previous instance are gone with it
constructor ==
  /\ sessions' = {}
  /\ listeners' = {}
  /\ events' = {}
  /\ chan' = [c \in Channels |-> IF chan[c] = "open" THEN "closed" ELSE chan[c]]
  /\ inbox' = [c \in Channels |-> <<>>]
  /\ tableExists' = TRUE
  /\ last' = [op |-> "constructor", ok |-> TRUE]
  /\ UNCHANGED << now, createdAt, scheduledAlarm, requests, seq >>

\* what a throw of sql.exec is: the table is missing, or the store fails
SqlError == IF tableExists THEN "StorageFailure" ELSE "no such table"

\* the INSERT throws: the statement leaves nothing behind, the throw
\* propagates through the stub and handleWebhookCapture answers 500
captureThrowsConsumesId ==
  /\ last' = [op |-> "captureRequest", ok |-> FALSE, status |-> 500,
              error |-> SqlError]
  /\ seq' = seq + 1
  /\ UNCHANGED << now, createdAt, scheduledAlarm, tableExists, requests,
                  sockets >>
captureThrows ==
  /\ last' = [op |-> "captureRequest", ok |-> FALSE, status |-> 500,
              error |-> SqlError]
  /\ UNCHANGED << now, storage, sockets >>

\* captureRequest(method, headers, body, query, metadata)
captureRequestRollsBack(in, insertThrows) ==
  IF ~tableExists \/ insertThrows \/ BroadcastSessions(sessions) # sessions
  THEN captureThrows
  ELSE LET row == WebhookRequest(NextId(requests, seq), in)
       IN  /\ requests' = requests \cup {row}
           /\ seq' = row.id
           /\ inbox' = BroadcastInbox(inbox, sessions, NewRequestMsg(row))
           /\ sessions' = BroadcastSessions(sessions)
           /\ last' = [op |-> "captureRequest", ok |-> TRUE, status |-> 200,
                       id |-> row.id,
                       afterFailure |-> (last.op = "captureRequest" /\ ~last.ok)]
           /\ UNCHANGED << now, createdAt, scheduledAlarm, tableExists,
                           listeners, events, chan >>
captureRequest(in, insertThrows) ==
  IF ~tableExists \/ insertThrows
  THEN captureThrows
  ELSE LET row == WebhookRequest(NextId(requests, seq), in)
       IN  /\ requests' = requests \cup {row}
           /\ seq' = row.id
           /\ inbox' = BroadcastInbox(inbox, sessions, NewRequestMsg(row))
           /\ sessions' = BroadcastSessions(sessions)
           /\ last' = [op |-> "captureRequest", ok |-> TRUE, status |-> 200,
                       id |-> row.id,
                       afterFailure |-> (last.op = "captureRequest" /\ ~last.ok)]
           /\ UNCHANGED << now, createdAt, scheduledAlarm, tableExists,
                           listeners, events, chan >>

\* handleWebhookCapture: the rate limiter is consulted first; a denial is
\* answered 429 and the Durable Object is not called
handleWebhookCaptureLimitsLate(in, denied, insertThrows) ==
  IF denied
  THEN LET row == WebhookRequest(NextId(requests, seq), in)
       IN  /\ requests' = requests \cup {row}
           /\ seq' = row.id
           /\ inbox' = BroadcastInbox(inbox, sessions, NewRequestMsg(row))
           /\ sessions' = BroadcastSessions(sessions)
           /\ last' = [op |-> "handleWebhookCapture", ok |-> FALSE,
                       status |-> 429]
           /\ UNCHANGED << now, createdAt, scheduledAlarm, tableExists,
                           listeners, events, chan >>
  ELSE captureRequest(in, insertThrows)
handleWebhookCapture(in, denied, insertThrows) ==
  IF denied
  THEN /\ last' = [op |-> "handleWebhookCapture", ok |-> FALSE, status |-> 429]
       /\ UNCHANGED << now, storage, sockets >>
  ELSE captureRequest(in, insertThrows)

\* getRequests(); a throw is answered 500 by handleGetBinRequests
getRequestsConsumes(selectThrows) ==
  /\ last' = IF tableExists /\ ~selectThrows
             THEN [op |-> "getRequests", ok |-> TRUE, status |-> 200,
                   result |-> SelectRequests(requests)]
             ELSE [op |-> "getRequests", ok |-> FALSE, status |-> 500,
                   error |-> SqlError]
  /\ requests' = {}
  /\ UNCHANGED << now, createdAt, scheduledAlarm, tableExists, seq, sockets >>
getRequests(selectThrows) ==
  /\ last' = IF tableExists /\ ~selectThrows
             THEN [op |-> "getRequests", ok |-> TRUE, status |-> 200,
                   result |-> SelectRequests(requests)]
             ELSE [op |-> "getRequests", ok |-> FALSE, status |-> 500,
                   error |-> SqlError]
  /\ UNCHANGED << now, storage, sockets >>

\* fetch, the branch url.pathname === ROUTES.INIT
fetchInit ==
  /\ ensureScheduled
  /\ last' = [op |-> "init", ok |-> TRUE, status |-> 200]
  /\ UNCHANGED << now, tableExists, requests, seq, sockets >>

\* ROUTES.INIT, and the URL handleCreateWebhook requests, as their characters
ROUTES_INIT == << "/", "i", "n", "i", "t" >>
InitUrl == << "h", "t", "t", "p", "s", ":", "/", "/", "i", "n", "i", "t", "/" >>

\* new URL(u).pathname of scheme://host[/path]: what starts at the first "/"
\* after the host, "/" if there is none
Pathname(u) ==
  LET dbl == {i \in 1 .. Len(u) - 1 : u[i] = "/" /\ u[i + 1] = "/"}
      host == (CHOOSE i \in dbl : \A j \in dbl : i <= j) + 2
      cut == {i \in host .. Len(u) : u[i] = "/"}
  IN  IF cut = {}
      THEN << "/" >>
      ELSE SubSeq(u, CHOOSE i \in cut : \A j \in cut : i <= j, Len(u))

\* fetch of a request without an Upgrade header: the init route when the
\* pathname is ROUTES.INIT, 400 'Expected WebSocket' otherwise
fetch(url) ==
  IF Pathname(url) = ROUTES_INIT
  THEN fetchInit
  ELSE /\ last' = [op |-> "init", ok |-> TRUE, status |-> 400]
       /\ UNCHANGED << now, storage, sockets >>

\* handleCreateWebhook: stub.fetch(new Request('https://init/')); the status
\* of the response is not looked at and the id is returned
handleCreateWebhook == fetch(InitUrl)
\* fetch, Upgrade: websocket -> handleWebSocketConnection, on a new pair c
handleWebSocketConnection(c, snapshotThrows) ==
  /\ chan[c] = "unused"
  /\ \A d \in Channels : d < c => chan[d] # "unused"   \* pairs are numbered as created
  /\ ensureScheduled
  /\ chan' = [chan EXCEPT ![c] = "open"]
  /\ sessions' = sessions \cup {c}
  /\ IF ~tableExists \/ snapshotThrows
     THEN \* getRequests or server.send throws after sessions.add and nothing
          \* catches it: the socket stays registered, without a snapshot
          \* and without listeners
          /\ last' = [op |-> "subscribe", ok |-> FALSE, channel |-> c,
                      error |-> SqlError]
          /\ UNCHANGED << inbox, listeners >>
     ELSE /\ inbox' = [inbox EXCEPT ![c] = Append(@,
                 InitialDataMsg(SelectRequests(requests),
                                IF createdAt' # None
                                THEN createdAt' + TTL_MS
                                ELSE now + TTL_MS))]
          /\ listeners' = listeners \cup {c}
          /\ last' = [op |-> "subscribe", ok |-> TRUE, channel |-> c,
                      rearmed |-> (createdAt # None /\ scheduledAlarm = None)]
  /\ UNCHANGED << now, tableExists, requests, seq, events >>

\* the client end of pair c goes away (close or transport error)
peerDisconnect(c) ==
  /\ chan[c] = "open"
  /\ chan' = [chan EXCEPT ![c] = "closed"]
  /\ events' = IF c \in listeners THEN events \cup {c} ELSE events
  /\ UNCHANGED << now, storage, sessions, listeners, inbox, last >>

\* the 'close' / 'error' listener of server socket c runs; nothing refers to
\* the socket afterwards, so what was sent on it is no longer kept
closeListenerClearsAll(c) ==
  /\ c \in events
  /\ events' = events \ {c}
  /\ sessions' = {}
  /\ listeners' = listeners \ {c}
  /\ inbox' = [inbox EXCEPT ![c] = <<>>]
  /\ UNCHANGED << now, storage, chan, last >>
closeListener(c) ==
  /\ c \in events
  /\ events' = events \ {c}
  /\ sessions' = sessions \ {c}
  /\ listeners' = listeners \ {c}
  /\ inbox' = [inbox EXCEPT ![c] = <<>>]
  /\ UNCHANGED << now, storage, chan, last >>

\* alarm(): due, redelivered after a throw, or delivered once more; after
\* MaxAttempts throws in a row the retries are used up and the alarm is gone
AlarmDue == scheduledAlarm # None /\ now >= scheduledAlarm
AlarmAttempt == IF last.op = "alarm" THEN last.attempt + 1 ELSE 1
AlarmAgain == last.op = "alarm" /\ last.ok /\ last.attempt < MaxAttempts

\* the close loop: every session that survived the broadcast is sent the
\* message once more and closed; a throw is caught per session
CloseLoopStopsAtFailure(registered, live) ==
  [c \in Channels |->
     IF c \in live /\ registered = live THEN "closed" ELSE chan[c]]
CloseLoop(registered, live) ==
  [c \in Channels |-> IF c \in live THEN "closed" ELSE chan[c]]

\* ctx.storage.deleteAll(): the key createdAt, the alarm and the whole
\* SQLite database (table `requests` and its sequence) are removed
deleteAllKeepsKeys ==
  /\ tableExists' = FALSE
  /\ requests' = {}
  /\ seq' = 0
  /\ UNCHANGED << createdAt, scheduledAlarm >>
deleteAll ==
  /\ createdAt' = None
  /\ scheduledAlarm' = None
  /\ tableExists' = FALSE
  /\ requests' = {}
  /\ seq' = 0

alarm(deleteAllThrows) ==
  /\ AlarmDue \/ AlarmAgain
  /\ deleteAllThrows => AlarmDue
  /\ LET live == BroadcastSessions(sessions)    \* after broadcastMessage
         sent1 == BroadcastInbox(inbox, sessions, DeletedMsg)
         sent2 == BroadcastInbox(sent1, live, DeletedMsg)   \* close loop
     IN  /\ inbox' = sent2
         /\ chan' = CloseLoop(sessions, live)
         /\ events' = events \cup (live \cap listeners)  \* close events
         /\ sessions' = {}
         /\ last' = [op |-> "alarm", ok |-> ~deleteAllThrows,
                     attempt |-> Min(AlarmAttempt, MaxAttempts),
                     after |-> IF last.op # "alarm" THEN "none"
                               ELSE IF last.ok THEN "ok" ELSE "threw",
                     registered |-> sessions, live |-> live]
  /\ IF deleteAllThrows
     THEN /\ scheduledAlarm' = IF AlarmAttempt < MaxAttempts
                               THEN scheduledAlarm      \* due for a retry
                               ELSE None                \* retries used up
          /\ UNCHANGED << createdAt, tableExists, requests, seq >>
     ELSE deleteAll
  /\ UNCHANGED << now, listeners >>

\* time passes
Tick ==
  /\ now < MaxNow
  /\ now' = now + TickMs
  /\ UNCHANGED << storage, sockets, last, iso >>

\* --------------------------------------------------------- specifications
Capture == Cardinality(requests) < MaxCaptures
           /\ \E in \in CaptureInputs : handleWebhookCapture(in, FALSE, FALSE)
           /\ UNCHANGED iso
Query == getRequests(FALSE) /\ UNCHANGED iso
\* a lifecycle starts only while its alarm fits the modelled clock
BoundedStart == createdAt # None \/ now + TTL_MS <= MaxNow
InitRoute == BoundedStart /\ handleCreateWebhook /\ UNCHANGED iso
Subscribe == BoundedStart
             /\ \E c \in Channels : handleWebSocketConnection(c, FALSE)
             /\ UNCHANGED iso
Disconnect == (\E c \in Channels : peerDisconnect(c)) /\ UNCHANGED iso
CloseEvent == (\E c \in Channels : closeListener(c)) /\ UNCHANGED iso
Expire == alarm(FALSE) /\ UNCHANGED iso
ExpireThrows == alarm(TRUE) /\ UNCHANGED iso
Restart == constructor /\ UNCHANGED iso

Next ==
  \/ Capture
  \/ Query
  \/ InitRoute
  \/ Subscribe
  \/ Disconnect
  \/ CloseEvent
  \/ Expire
  \/ ExpireThrows
  \/ Restart
  \/ Tick

Spec == Init /\ [][Next]_vars

TypeOK ==
  /\ now >= StartMs /\ now <= MaxNow
  /\ createdAt = None \/ (createdAt >= StartMs /\ createdAt <= now)
  /\ scheduledAlarm = None \/ scheduledAlarm >= StartMs + TTL_MS
  /\ tableExists \in BOOLEAN
  /\ sessions \subseteq Channels
  /\ \A c \in Channels : chan[c] \in {"unused", "open", "closed"}

\* Spec with fair delivery of due alarms and a clock that reaches them
SpecFair == Spec /\ WF_vars(Tick) /\ WF_vars(Expire)

\* one lifecycle without viewers, long enough to pass REQUEST_LIMIT
CapInput == CHOOSE in \in CaptureInputs : in.method = "POST"
CapCapture == Cardinality(requests) < MaxCapCaptures
              /\ handleWebhookCapture(CapInput, FALSE, FALSE)
              /\ UNCHANGED iso
CapQuery == getRequests(FALSE) /\ UNCHANGED iso
NextCap == CapCapture \/ CapQuery
SpecCap == Init /\ [][NextCap]_vars

\* the same operations while the store may fail and the rate limiter may
\* deny, within one lifecycle: the clock stands still and no alarm runs
FaultyCapture ==
  /\ Cardinality(requests) < MaxCaptures
  /\ \E in \in CaptureInputs : \E denied, insertThrows \in BOOLEAN :
        handleWebhookCapture(in, denied, insertThrows)
  /\ UNCHANGED iso
FaultyQuery == (\E selectThrows \in BOOLEAN : getRequests(selectThrows))
               /\ UNCHANGED iso
FaultySubscribe ==
  /\ \E c \in Channels : \E snapshotThrows \in BOOLEAN :
       handleWebSocketConnection(c, snapshotThrows)
  /\ UNCHANGED iso
NextFaults ==
  \/ FaultyCapture
  \/ FaultyQuery
  \/ InitRoute
  \/ FaultySubscribe
  \/ Disconnect
  \/ CloseEvent
  \/ Restart
SpecFaults == Init /\ [][NextFaults]_vars


\* ------------------------------------------------- two identifiers, routed
\* path.split('/')
RECURSIVE Split(_)
Split(s) ==
  LET cut == {i \in 1 .. Len(s) : s[i] = "/"}
  IN  IF cut = {}
      THEN << s >>
      ELSE LET i == CHOOSE k \in cut : \A j \in cut : k <= j
           IN  << SubSeq(s, 1, i - 1) >> \o Split(SubSeq(s, i + 1, Len(s)))

\* extractIdFromPath(path, position): parts[position] || null (0-based)
ExtractIdFromPath(path, position) ==
  LET parts == Split(path)
  IN  IF position + 1 <= Len(parts) THEN parts[position + 1] ELSE << >>

\* the paths of the three routes that carry an identifier
HookPath(id) == << "/", "h", "o", "o", "k", "/" >> \o id
WsPath(id) == << "/", "w", "s", "/" >> \o id
BinPath(id) == << "/", "a", "p", "i", "/", "b", "i", "n", "/" >> \o id

\* env.MY_DURABLE_OBJECT.idFromName(id): one object per name
IdFromNameShared(id) == << "a" >>
IdFromName(id) == id

\* the capture call of CaptureInputs, with a body that names the identifier
IsoInput(id) ==
  [CapInput EXCEPT !.body = IF id = << "a" >> THEN "for a" ELSE "for b"]

UsedChannels(ch) == Cardinality({c \in Channels : ch[c] # "unused"})

\* the requests of the Worker's router reach the object their path names
IsoCreate ==
  \E id \in Identifiers :
    /\ IdFromName(id) = cur
    /\ BoundedStart
    /\ handleCreateWebhook
    /\ req' = id
    /\ UNCHANGED << cur, parked >>
IsoCapture ==
  \E id \in Identifiers :
    /\ IdFromName(ExtractIdFromPath(HookPath(id), 2)) = cur
    /\ Cardinality(requests) + Cardinality(parked[4]) < MaxCaptures
    /\ handleWebhookCapture(IsoInput(id), FALSE, FALSE)
    /\ req' = id
    /\ UNCHANGED << cur, parked >>
IsoQuery ==
  \E id \in Identifiers :
    /\ IdFromName(ExtractIdFromPath(BinPath(id), 3)) = cur
    /\ getRequests(FALSE)
    /\ req' = id
    /\ UNCHANGED << cur, parked >>
IsoSubscribe ==
  \E id \in Identifiers :
    /\ IdFromName(ExtractIdFromPath(WsPath(id), 2)) = cur
    /\ BoundedStart
    /\ UsedChannels(chan) + UsedChannels(parked[9]) < MaxChannels
    /\ \E c \in Channels : handleWebSocketConnection(c, FALSE)
    /\ req' = id
    /\ UNCHANGED << cur, parked >>
\* the alarm of an object is the expiry of the identifiers it serves
IsoExpire ==
  \E id \in Identifiers :
    /\ IdFromName(id) = cur
    /\ AlarmDue
    /\ alarm(FALSE)
    /\ req' = id
    /\ UNCHANGED << cur, parked >>
\* turn to the other object: nothing of the program runs
Switch ==
  /\ cur' = CHOOSE u \in Identifiers : u # cur
  /\ parked' = unit
  /\ createdAt' = parked[1]
  /\ scheduledAlarm' = parked[2]
  /\ tableExists' = parked[3]
  /\ requests' = parked[4]
  /\ seq' = parked[5]
  /\ sessions' = parked[6]
  /\ listeners' = parked[7]
  /\ events' = parked[8]
  /\ chan' = parked[9]
  /\ inbox' = parked[10]
  /\ UNCHANGED << now, last, req >>
\* the clock is followed while an alarm of either object is still to come
IsoTick ==
  /\ \/ scheduledAlarm # None /\ now < scheduledAlarm
     \/ parked[2] # None /\ now < parked[2]
  /\ Tick
NextIso ==
  \/ IsoCreate
  \/ IsoCapture
  \/ IsoQuery
  \/ IsoSubscribe
  \/ IsoExpire
  \/ Switch
  \/ IsoTick
SpecIso == Init /\ [][NextIso]_vars

\* the state of the object that serves identifier id
UnitOf(id) == IF IdFromName(id) = cur THEN unit ELSE parked
\* ------------------------------------------------------------------ claims
Ids(rows) == {r.id : r \in rows}
Count == Cardinality(requests)

\* C2: the ids of the rows of one lifecycle are exactly 1..N, and the N-th
\* successful captureRequest of the lifecycle returns N
C2_IdsGapFree ==
  /\ Ids(requests) = 1 .. Count
  /\ (last.op = "captureRequest" /\ last.ok) => last.id = Count
C2_Witness == last.op = "captureRequest" /\ last.ok /\ last.id = 2

\* C3: getRequests returns min(N, REQUEST_LIMIT) rows, the ones with the
\* highest ids, in strictly descending id order
C3_QueryNewestDescending ==
  (last.op = "getRequests" /\ last.ok) =>
     /\ Len(last.result) = Min(Count, REQUEST_LIMIT)
     /\ \A i \in 1 .. Len(last.result) :
          /\ last.result[i] \in requests
          /\ last.result[i].id = Count - i + 1
C3_Witness ==
  last.op = "getRequests" /\ last.ok /\ Count > REQUEST_LIMIT

\* C5: a non-empty log implies createdAt is recorded and a wake-up is pending
C5_CaptureSchedules ==
  requests # {} => (createdAt # None /\ scheduledAlarm # None)

\* C10: at most REQUEST_LIMIT rows are durably stored
C10_StoredAtMostLimit == Count <= REQUEST_LIMIT

\* a connected viewer that received its snapshot, the rows of the snapshot,
\* and the new_request messages it was sent afterwards
Joined(c) ==
  /\ c \in sessions
  /\ chan[c] = "open"
  /\ inbox[c] # <<>>
  /\ inbox[c][1].type = "initial_data"
SnapshotRows(c) == {inbox[c][1].data[i] : i \in 1 .. Len(inbox[c][1].data)}
NewRequestAt(c) == {i \in 2 .. Len(inbox[c]) : inbox[c][i].type = "new_request"}
NewRequestCount(c, r) ==
  Cardinality({i \in NewRequestAt(c) : inbox[c][i].data = r})

\* C1: a connected viewer that received its snapshot has every stored row
\* exactly once: either in the snapshot and in no new_request, or in exactly
\* one new_request and not in the snapshot; snapshot rows precede the
\* broadcast ones, and nothing is delivered that is not stored
C1_ExactlyOnce ==
  \A c \in Channels : Joined(c) =>
    /\ \A r \in requests :
         \/ r \in SnapshotRows(c) /\ NewRequestCount(c, r) = 0
         \/ r \notin SnapshotRows(c) /\ NewRequestCount(c, r) = 1
    /\ SnapshotRows(c) \subseteq requests
    /\ \A i \in NewRequestAt(c) :
         /\ inbox[c][i].data \in requests
         /\ \A r \in SnapshotRows(c) : r.id < inbox[c][i].data.id
C1_Witness ==
  \E c \in Channels :
    /\ Joined(c)
    /\ SnapshotRows(c) # {}
    /\ \E r \in requests : NewRequestCount(c, r) = 1

\* C4: once the durable state is erased, a call behaves as on an identifier
\* that never existed: getRequests returns the empty sequence, captureRequest
\* returns id 1, subscribe starts a lifecycle
C4_ErasedActsFresh ==
  /\ (last.op = "getRequests" /\ requests = {}) =>
        (last.ok /\ last.result = <<>>)
  /\ last.op = "captureRequest" => (last.ok /\ (Count = 1 => last.id = 1))
  /\ last.op = "subscribe" => (last.ok /\ createdAt # None)

\* no row and no createdAt
Erased == requests = {} /\ createdAt = None

\* C6: every durable state (a row or a createdAt) is eventually erased
C6_EventuallyErased == (~Erased) ~> Erased

\* C7: before expiry no handler changes a recorded createdAt, and a handler
\* that runs ensureScheduled again (init, subscribe) does not move a pending
\* wake-up
C7_InitIdempotent ==
  [][ /\ (createdAt # None /\ last'.op # "alarm") => createdAt' = createdAt
      /\ (createdAt # None /\ scheduledAlarm # None
             /\ last'.op \in {"init", "subscribe"})
            => scheduledAlarm' = scheduledAlarm ]_vars
C7_Witness ==
  /\ last.op = "subscribe" /\ last.ok
  /\ createdAt # None /\ createdAt < now
  /\ scheduledAlarm = createdAt + TTL_MS
  /\ \E r \in requests : r.timestamp > createdAt

\* C8: an alarm delivered again, after a run that completed or after a run
\* that threw, ends with an empty registry, an empty log and no createdAt
C8_RedeliverySafe ==
  (last.op = "alarm" /\ (last.after = "ok" \/ (last.after = "threw" /\ last.ok)))
     => (sessions = {} /\ Erased /\ scheduledAlarm = None)
C8_Witness == last.op = "alarm" /\ last.after = "threw" /\ last.ok

\* C9: an alarm run leaves the registry empty and every registered channel
\* closed; the channels whose send succeeded were sent the deleted message;
\* the erase follows, and a throw of the erase leaves the registry cleared
C9_ExpiryClosesAllThenErases ==
  [][ (Expire \/ ExpireThrows) =>
        /\ sessions' = {}
        /\ \A c \in sessions :
             /\ chan'[c] = "closed"
             /\ chan[c] = "open" =>
                  /\ Len(inbox'[c]) > Len(inbox[c])
                  /\ inbox'[c][Len(inbox'[c])] = DeletedMsg
        /\ Expire => (requests' = {} /\ createdAt' = None)
        /\ ExpireThrows => (requests' = requests /\ createdAt' = createdAt) ]_vars
C9_Witness ==
  /\ last.op = "alarm"
  /\ last.ok
  /\ last.live # {}
  /\ last.registered \ last.live # {}
  /\ Erased

\* a lifecycle in which no alarm has run yet
BeforeExpiry == scheduledAlarm # None /\ now < scheduledAlarm
HasNewRequest(c) ==
  \E i \in 1 .. Len(inbox[c]) : inbox[c][i].type = "new_request"

\* C11: a broadcast sends the message exactly once to every registered
\* channel whose send succeeds, removes exactly the channels whose send
\* throws from the registry, touches no other channel and does not throw
C11_BroadcastBestEffort ==
  [][ (Capture /\ tableExists) =>
        LET msg == NewRequestMsg(CHOOSE r \in requests' \ requests : TRUE)
        IN  /\ last'.ok
            /\ sessions' = {c \in sessions : chan[c] = "open"}
            /\ \A c \in Channels :
                 inbox'[c] = IF c \in sessions /\ chan[c] = "open"
                             THEN Append(inbox[c], msg)
                             ELSE inbox[c] ]_vars
C11_Witness ==
  /\ last.op = "captureRequest" /\ last.ok /\ Count = 1
  /\ BeforeExpiry
  /\ \E c \in sessions : HasNewRequest(c)
  /\ \E d \in events \ sessions : ~HasNewRequest(d)

\* C12: no channel is registered without having been sent its initial_data
\* (a subscribe whose snapshot fails closes the channel and leaves nothing
\* in the registry)
C12_RegisteredHaveSnapshot ==
  \A c \in sessions :
    /\ inbox[c] # <<>>
    /\ inbox[c][1].type = "initial_data"

\* C13: a capture that reaches the INSERT returns the id of a row that is in
\* the log afterwards whatever the sends of the broadcast do, and a stored
\* row leaves the log only when the alarm erases the storage
C13_AppendSurvivesBroadcast ==
  [][ /\ (Capture /\ tableExists) =>
            /\ last'.ok
            /\ \E r \in requests' \ requests : r.id = last'.id
      /\ requests \subseteq requests' \/ Expire ]_vars
C13_Witness ==
  /\ last.op = "captureRequest" /\ last.ok /\ Count = 1
  /\ \E r \in requests : r.id = last.id
  /\ BeforeExpiry
  /\ sessions = {}
  /\ \E d \in events : ~HasNewRequest(d)

\* C14: a capture the rate limiter denies is answered 429 and changes
\* nothing: no row, no id consumed, no broadcast, the same registry
C14_DeniedLeavesNoTrace ==
  [][ (FaultyCapture /\ last'.op = "handleWebhookCapture") =>
        /\ last'.status = 429
        /\ ~last'.ok
        /\ UNCHANGED << storage, sockets >> ]_vars
C14_Witness ==
  /\ last.op = "handleWebhookCapture"
  /\ last.status = 429
  /\ requests # {}
  /\ \E c \in sessions : chan[c] = "open"

\* C15: once handleCreateWebhook has returned the id without an init error,
\* createdAt is recorded and a wake-up is pending at createdAt + TTL
C15_CreateInitializes ==
  (last.op = "init" /\ last.ok) =>
     (createdAt # None /\ scheduledAlarm = createdAt + TTL_MS)

\* C16: a capture whose INSERT throws is answered 500 and leaves no row, no
\* consumed id and no broadcast, and the capture that succeeds next gets the
\* next gap-free id; a query whose SELECT throws is answered 500 without data
\* and leaves the log unchanged
C16_FailureLeavesNoTrace ==
  [][ /\ (FaultyCapture /\ last'.op = "captureRequest" /\ ~last'.ok) =>
            /\ last'.status = 500
            /\ UNCHANGED << storage, sockets >>
      /\ (FaultyCapture /\ last'.op = "captureRequest" /\ last'.ok) =>
            /\ last'.id = Count + 1
            /\ Ids(requests') = 1 .. (Count + 1)
      /\ (FaultyQuery /\ ~last'.ok) =>
            /\ last'.status = 500
            /\ "result" \notin DOMAIN last'
            /\ UNCHANGED << storage, sockets >> ]_vars
C16_Witness ==
  /\ last.op = "captureRequest" /\ last.ok
  /\ last.afterFailure
  /\ last.id = 2
  /\ \E c \in sessions :
       /\ Len(inbox[c]) = 2
       /\ inbox[c][1].type = "initial_data" /\ Len(inbox[c][1].data) = 1
       /\ inbox[c][2] = NewRequestMsg(CHOOSE r \in requests : r.id = 2)

\* a record with every field, all taken from one capture call
FullRecord(r) ==
  /\ DOMAIN r = {"id", "timestamp", "method", "headers", "body", "query",
                 "metadata"}
  /\ r.id >= 1
  /\ r.timestamp >= StartMs /\ r.timestamp <= now
  /\ \E in \in CaptureInputs :
       /\ r.method = in.method
       /\ r.headers = JSONStringify(in.headers)
       /\ r.body = in.body
       /\ r.query = in.query
       /\ r.metadata = in.metadata

\* C17: every record a reader can see (a stored row, a row of a getRequests
\* result, of a snapshot or of a new_request) has all its fields, with the
\* values of one capture call
C17_CaptureAtomic ==
  /\ \A r \in requests : FullRecord(r)
  /\ (last.op = "getRequests" /\ last.ok) =>
        \A i \in 1 .. Len(last.result) : FullRecord(last.result[i])
  /\ \A c \in Channels : \A i \in 1 .. Len(inbox[c]) :
       /\ inbox[c][i].type = "new_request" => FullRecord(inbox[c][i].data)
       /\ inbox[c][i].type = "initial_data" =>
            \A k \in 1 .. Len(inbox[c][i].data) :
               FullRecord(inbox[c][i].data[k])
C17_Witness ==
  /\ last.op = "getRequests" /\ last.ok /\ Len(last.result) = 2
  /\ \E c \in sessions : HasNewRequest(c)
  /\ \E c \in sessions : Len(inbox[c][1].data) > 0

\* C18: in every state a pending wake-up is at the stored createdAt + TTL;
\* a handler that ran ensureScheduled leaves a wake-up pending at that time,
\* re-created from the stored, unchanged createdAt when the wake-up had been
\* lost; and the alarm of a lifecycle never runs before createdAt + TTL
C18_WakeUpAtExpiresAt ==
  [][ /\ scheduledAlarm' # None =>
            (createdAt' # None /\ scheduledAlarm' = createdAt' + TTL_MS)
      /\ (Subscribe /\ last'.op = "subscribe") =>
            /\ createdAt' # None
            /\ scheduledAlarm' = createdAt' + TTL_MS
            /\ createdAt # None => createdAt' = createdAt
      /\ ((Expire \/ ExpireThrows) /\ createdAt # None) =>
            now >= createdAt + TTL_MS ]_vars
C18_Witness ==
  /\ last.op = "subscribe" /\ last.ok
  /\ last.rearmed
  /\ createdAt # None /\ createdAt < now
  /\ scheduledAlarm = createdAt + TTL_MS

\* C19: an alarm run sends every registered channel that can still be sent to
\* the deleted message exactly once, as the last message before it is closed
C19_DeletedExactlyOnce ==
  [][ (Expire \/ ExpireThrows) =>
        \A c \in sessions :
           chan[c] = "open" =>
              /\ inbox'[c] = Append(inbox[c], DeletedMsg)
              /\ chan'[c] = "closed" ]_vars

\* C20: a successful subscribe sends the joining channel one initial_data
\* whose data is what getRequests returns at that moment and whose expiresAt
\* is the stored createdAt + TTL, the time of the pending wake-up (never the
\* fallback now + TTL of a missing createdAt); no channel is ever sent a
\* second initial_data
C20_SnapshotAtRegistration ==
  [][ /\ (Subscribe /\ last'.op = "subscribe" /\ last'.ok) =>
            /\ createdAt' # None
            /\ inbox'[last'.channel] =
                 << InitialDataMsg(SelectRequests(requests),
                                   createdAt' + TTL_MS) >>
            /\ inbox'[last'.channel][1].expiresAt = scheduledAlarm'
      /\ \A c \in Channels :
           Cardinality({i \in 1 .. Len(inbox'[c]) :
                          inbox'[c][i].type = "initial_data"}) <= 1 ]_vars
C20_Witness ==
  /\ last.op = "subscribe" /\ last.ok
  /\ createdAt # None
  /\ Len(inbox[last.channel]) = 1
  /\ Len(inbox[last.channel][1].data) = Count
  /\ \E k \in 1 .. Count :
       inbox[last.channel][1].data[k].timestamp > createdAt
  /\ inbox[last.channel][1].expiresAt = scheduledAlarm

\* C21: only a completed alarm run removes or changes a stored row, removes
\* createdAt or drops the table; getRequests changes neither the storage nor
\* the registry
C21_ErasedOnlyByExpiry ==
  [][ /\ Expire \/ ( /\ requests \subseteq requests'
                     /\ createdAt # None => createdAt' = createdAt
                     /\ tableExists => tableExists' )
      /\ Query => UNCHANGED << now, storage, sockets >> ]_vars
C21_Witness ==
  /\ last.op = "getRequests" /\ last.ok
  /\ Len(last.result) = 2
  /\ createdAt # None /\ scheduledAlarm # None
  /\ \E c \in sessions : chan[c] = "open"

\* C22: the close or error listener of a channel removes that channel from
\* the registry (nothing, if a failed send had removed it already) and
\* changes neither another channel's registration or messages nor the
\* storage; a channel whose viewer has gone is sent nothing more
C22_DisconnectRemovesOnlyThatViewer ==
  [][ /\ CloseEvent =>
           \E c \in events :
              /\ sessions' = sessions \ {c}
              /\ \A d \in Channels \ {c} : inbox'[d] = inbox[d]
              /\ UNCHANGED << now, storage, chan >>
      /\ \A c \in Channels :
           chan[c] = "closed" => inbox'[c] \in {inbox[c], <<>>} ]_vars
C22_Witness ==
  /\ tableExists /\ BeforeExpiry
  /\ requests # {}
  /\ \E c, d \in Channels :
       /\ d < c
       /\ d \in sessions /\ chan[d] = "open" /\ HasNewRequest(d)
       /\ chan[c] = "closed" /\ c \notin events /\ c \notin listeners
       /\ c \notin sessions

\* C24: the first message sent on a channel is its initial_data; no
\* new_request and no deleted message precedes it
C24_InitialDataFirst ==
  \A c \in Channels :
    inbox[c] # <<>> => inbox[c][1].type = "initial_data"

\* C25: whenever a channel is registered, createdAt is recorded and a
\* wake-up is pending (at createdAt + TTL, within the clock the alarm is
\* delivered on), so the alarm that closes the channel is still to come
C25_NoOrphanedViewer ==
  sessions # {} =>
     /\ createdAt # None
     /\ scheduledAlarm # None
     /\ scheduledAlarm = createdAt + TTL_MS
C25_Witness ==
  /\ last.op = "subscribe" /\ last.ok
  /\ last.channel \in sessions
  /\ \E c \in Channels :
       /\ chan[c] = "closed"
       /\ inbox[c] # <<>>
       /\ inbox[c][Len(inbox[c])] = DeletedMsg

\* what C25 draws from it: under SpecFair every registered channel leaves
\* the registry (closed by the alarm, or through its own close or a failed
\* send before that)
C25_EventuallyClosed ==
  \A c \in Channels : (c \in sessions) ~> (c \notin sessions)

\* every row the object u holds or has sent was captured under identifier id
CapturedUnder(id, u) ==
  LET tag == IsoInput(id).body
  IN  /\ \A r \in u[4] : r.body = tag
      /\ \A c \in Channels : \A i \in 1 .. Len(u[10][c]) :
           LET msg == u[10][c][i]
           IN  /\ msg.type = "new_request" => msg.data.body = tag
               /\ msg.type = "initial_data" =>
                    \A k \in 1 .. Len(msg.data) : msg.data[k].body = tag

\* C23: a step changes nothing (log, sequence, createdAt, alarm, registry,
\* sockets) of the object of an identifier other than the one the request
\* named; a query returns only rows captured under the identifier it names,
\* and the object of an identifier stores and sends its viewers only rows
\* captured under that identifier
C23_IdentifiersIsolated ==
  [][ /\ \A id \in Identifiers : id # req' => UnitOf(id)' = UnitOf(id)
      /\ (last'.op = "getRequests" /\ last'.ok /\ req' \in Identifiers) =>
            \A i \in 1 .. Len(last'.result) :
               last'.result[i].body = IsoInput(req').body
      /\ \A id \in Identifiers : CapturedUnder(id, UnitOf(id))' ]_vars
C23_Witness ==
  /\ last.op = "getRequests" /\ last.ok
  /\ req = << "b" >>
  /\ Len(last.result) = 1
  /\ UnitOf(<< "a" >>)[4] # {}
  /\ UnitOf(<< "a" >>)[6] # {}
  /\ UnitOf(<< "b" >>)[6] # {}
====
